---- MODULE Spec2Model ----
(***************************************************************************)
(* Model of 01_basics/basic_operations.py: the memoized client provider    *)
(* get_os_client, create_index_if_not_exists, bulk_index_metadata and      *)
(* query_index, together with the search service and the client library    *)
(* calls they are written against (indices.exists, indices.create,         *)
(* helpers.bulk, search).                                                  *)
(*                                                                         *)
(* Every function of the module is a sequence of steps of the calling      *)
(* thread; one step is one exchange with the service (or the body of the   *)
(* client constructor), so that callers on different threads interleave    *)
(* exactly where the code lets them.                                       *)
(***************************************************************************)
EXTENDS Integers, Sequences, FiniteSets, TLC

\* ------------------------------------------------------------------ bounds

\* Longest list of documents a caller owns.
MaxDocs == 2
\* Largest size argument given to query_index.
MaxSize == 1
\* Number of identifiers the service assigns before the model stops loading
\* documents that carry none.
MaxAuto == 1

\* ------------------------------------------------------------------ values

\* The thread that runs the main program, and a second thread of the host
\* application (the concurrent specification lets both run).
MainThread == "main"
Threads == {MainThread, "worker"}

\* A key the mapping (document or environment) does not hold.
Absent == "<absent>"
\* Python's None.
NoneVal == "<None>"
\* The integer 0 as a field value.
Zero == "<0>"
\* client=None: no handle (handles are the positive integers).
NoClient == 0

\* Values of OPENSEARCH_PORT: unset, an integer literal, not an integer literal.
PortVals == {Absent, "9200", "https"}
Envs == [host : {Absent, "search.local"}, port : PortVals,
         user : {Absent, "admin"}, pass : {Absent, "secret"}]

\* index_name = "contracts_meta"
IndexNames == {"contracts_meta"}
\* Mappings a caller passes; the service rejects "invalid" on create.
Mappings == {"m1", "invalid"}
\* The mapping of an index the service created on first write.
Dynamic == "dynamic"

\* Documents: contract_id and id may be missing; full_text "malformed" stands
\* for a document the service rejects when it validates it.
TextVals == {"indemnity", "majeure", "malformed"}
Docs == [contract_id : {Absent, "C-001"}, id : {Absent}, full_text : TextVals]

\* Query bodies: a match on full_text, or an expression the service cannot parse.
MalformedQuery == "<malformed>"
Queries == {"indemnity", "majeure", MalformedQuery}
Sizes == 0..MaxSize

RECURSIVE SeqsUpTo(_, _)
SeqsUpTo(S, n) ==
    IF n = 0 THEN {<<>>}
    ELSE LET shorter == SeqsUpTo(S, n - 1)
         IN  shorter \cup {Append(s, x) : s \in {q \in shorter : Len(q) = n - 1}, x \in S}

EmptyFn == [x \in {} |-> x]

Min(a, b) == IF a <= b THEN a ELSE b

\* ------------------------------------------------------- python expressions

\* d.get(key): the value, or None when the key is missing.
Get(d, key) == IF d[key] = Absent THEN NoneVal ELSE d[key]

\* bool(v) for the values a field or a variable may hold.
Truthy(v) == v \notin {NoneVal, "", Zero}

\* a or b
PyOr(a, b) == IF Truthy(a) THEN a ELSE b

\* doc.get("contract_id") or doc.get("id")
DeriveId(doc) == PyOr(Get(doc, "contract_id"), Get(doc, "id"))

\* One element of the list comprehension: the keys given first and the
\* document's own fields spread after them (the bulk helper takes the
\* underscore keys as the operation's metadata and the rest as its source).
Action(index_name, doc) ==
    [op_type |-> "index", index |-> index_name, id |-> DeriveId(doc), source |-> doc]

\* actions = [ {...} for doc in docs ]
Actions(index_name, ds) == [i \in 1..Len(ds) |-> Action(index_name, ds[i])]

\* int(os.getenv("OPENSEARCH_PORT", 443)) succeeds on the default and on an
\* integer literal, and raises ValueError on anything else.
DefaultPort == "443"
PortOf(e) == IF e.port = Absent THEN DefaultPort ELSE e.port
IsIntLiteral(p) == p \in {"443", "9200"}

\* timeout=30
Timeout == 30

\* Faulty variant of NewClient: a missing host is replaced by "localhost".
NewClientDefaultHost(e) ==
    [host |-> IF e.host = Absent THEN "localhost" ELSE e.host, port |-> PortOf(e),
     user |-> Get(e, "user"), pass |-> Get(e, "pass"),
     use_ssl |-> TRUE, verify_certs |-> TRUE, timeout |-> Timeout]

\* OpenSearch(hosts=[{host, port}], http_auth=HTTPBasicAuth(user, password), ...):
\* the constructor stores what it is given and contacts nobody.
NewClient(e) ==
    [host |-> Get(e, "host"), port |-> PortOf(e),
     user |-> Get(e, "user"), pass |-> Get(e, "pass"),
     use_ssl |-> TRUE, verify_certs |-> TRUE, timeout |-> Timeout]

\* Faulty variant of CacheStore: the result is returned but never stored.
CacheStoreNever(cached, h) == cached

\* functools.lru_cache(maxsize=1) on a function of no arguments: the result of a
\* call is stored unless the (only) key was stored while the call was running,
\* in which case the stored entry stays.
CacheStore(cached, h) == IF cached = NoClient THEN h ELSE cached

\* Faulty variant of NeedsCreate: the create is sent whatever the answer.
NeedsCreateAlways(present) == TRUE

\* if not client.indices.exists(index=index_name):
NeedsCreate(present) == ~present

\* Faulty variant of BulkRefresh: the bulk request asks for no refresh.
BulkRefreshOff == FALSE

\* helpers.bulk(client, actions, refresh=True)
BulkRefresh == TRUE

\* Faulty variant of IndexedCount: the distinct identifiers are counted.
IndexedCountDistinct(acts) == Cardinality({acts[i].id : i \in 1..Len(acts)})

\* f"Indexed {len(actions)} documents into '{index_name}'"
IndexedCount(acts) == Len(acts)

\* [hit.get("_source", {}) for hit in hits]
Sources(hits) == [i \in 1..Len(hits) |-> hits[i].source]

\* ------------------------------------------------------------- the service

\* What a request through a handle meets before the service reads it: no host
\* to connect to, or credentials the service refuses.
Transport(c) ==
    IF c.host = NoneVal THEN "ConnectionError"
    ELSE IF c.user = NoneVal \/ c.pass = NoneVal THEN "AuthenticationException"
    ELSE "ok"

\* The service validates a document against the index when it writes it.
Accepts(doc) == doc.full_text # "malformed"

\* match_phrase on full_text.
Matches(doc, q) == doc.full_text = q

\* The n-th identifier the service assigns to an operation that carries none.
AutoId(n) == "auto-" \o ToString(n)

\* A freshly created index.
NewIndex(mapping) == [mapping |-> mapping, stored |-> EmptyFn, visible |-> EmptyFn]

\* One "index" operation: create or overwrite the document at its identifier.
Put(stored, id, doc) == [k \in DOMAIN stored \cup {id} |-> IF k = id THEN doc ELSE stored[k]]

\* The service applies the operations of one bulk request in order and answers
\* one item per operation: rejected, or written under the identifier the
\* operation carries (a missing or null identifier is replaced by a new one).
RECURSIVE ApplyBulk(_, _, _, _)
ApplyBulk(acts, stored, auto, items) ==
    IF acts = <<>> THEN [stored |-> stored, auto |-> auto, items |-> items]
    ELSE LET a == Head(acts)
         IN  IF ~Accepts(a.source)
             THEN ApplyBulk(Tail(acts), stored, auto,
                            Append(items, [ok |-> FALSE, id |-> a.id]))
             ELSE IF a.id = NoneVal
             THEN ApplyBulk(Tail(acts), Put(stored, AutoId(auto + 1), a.source), auto + 1,
                            Append(items, [ok |-> TRUE, id |-> AutoId(auto + 1)]))
             ELSE ApplyBulk(Tail(acts), Put(stored, a.id, a.source), auto,
                            Append(items, [ok |-> TRUE, id |-> a.id]))

\* Identifiers the service would have to assign for these operations.
AutoNeeded(acts) == Cardinality({i \in 1..Len(acts) : Accepts(acts[i].source) /\ acts[i].id = NoneVal})

\* The errors the bulk helper collects from the answer: the items not ok, each
\* with its operation (here: its position in the request).
RECURSIVE FailedItems(_, _)
FailedItems(items, i) ==
    IF i > Len(items) THEN <<>>
    ELSE IF items[i].ok THEN FailedItems(items, i + 1)
    ELSE <<i>> \o FailedItems(items, i + 1)

\* The hit lists a search may answer: min(size, matches) distinct visible
\* documents that match, in the order the service ranks them.
SearchHits(visible, q, size) ==
    LET m == {k \in DOMAIN visible : Matches(visible[k], q)}
        n == Min(size, Cardinality(m))
    IN  {[i \in 1..n |-> [id |-> s[i], source |-> visible[s[i]]]] :
            s \in {x \in SeqsUpTo(m, n) : Len(x) = n /\ \A i, j \in 1..n : i # j => x[i] # x[j]}}

\* ------------------------------------------------------------------- state

VARIABLES
    env,          \* the process environment (OPENSEARCH_HOST, _PORT, _USER, _PASS)
    sample_docs,  \* the documents the caller owns
    cache,        \* the entry of get_os_client's lru_cache (NoClient: empty)
    clients,      \* the handles constructed so far: handle -> its configuration
    raced,        \* a thread entered the constructor while another was inside it
    indices,      \* the service: index name -> [mapping, stored, visible]
    autoIds,      \* the service: identifiers assigned so far
    pc,           \* per thread: where it stands in the function it runs
    op,           \* per thread: the call it runs, or ran last
    client,       \* per thread: the local variable client
    found,        \* per thread: the answer of its indices.exists
    actions,      \* per thread: the local variable actions
    items,        \* per thread: the answer to its bulk request
    ret,          \* per thread: how its call ended (value, exception, output)
    calls,        \* per thread: requests sent during its call
    prev          \* per thread: the call that ended before the current one

vars == <<env, sample_docs, cache, clients, raced, indices, autoIds, pc, op, client,
          found, actions, items, ret, calls, prev>>

Fns == {"get_os_client", "create_index_if_not_exists", "bulk_index_metadata", "query_index"}

NoCall == [fn |-> "none", index |-> "", mapping |-> "", docs |-> <<>>, query |-> "",
           size |-> 0, clientArg |-> NoClient]
NoCalls == [net |-> 0, creates |-> 0]
NoPrev == [what |-> "none", docs |-> <<>>, kind |-> "none", creates |-> 0]

\* The outcome of a call: kind is "ok" or the exception that left the function.
Outcome(kind, reason) ==
    [kind |-> kind, reason |-> reason, type |-> "", handle |-> NoClient,
     value |-> 0, hits |-> <<>>, failures |-> <<>>, printed |-> "", count |-> 0,
     memoHit |-> FALSE]
Running == Outcome("running", "")
Raise(kind, reason) == Outcome(kind, reason)

\* Before any call: nothing cached, nothing constructed, an empty service.
Start ==
    /\ cache = NoClient
    /\ clients = EmptyFn
    /\ raced = FALSE
    /\ indices = EmptyFn
    /\ autoIds = 0
    /\ pc = [t \in Threads |-> "idle"]
    /\ op = [t \in Threads |-> NoCall]
    /\ client = [t \in Threads |-> NoClient]
    /\ found = [t \in Threads |-> "unknown"]
    /\ actions = [t \in Threads |-> <<>>]
    /\ items = [t \in Threads |-> <<>>]
    /\ ret = [t \in Threads |-> Outcome("none", "")]
    /\ calls = [t \in Threads |-> NoCalls]
    /\ prev = [t \in Threads |-> NoPrev]

\* The environment the module expects: host and credentials set, the port left
\* to its default.
MainEnv == [host |-> "search.local", port |-> Absent, user |-> "admin", pass |-> "secret"]

\* A configured process whose caller owns any documents.
Init ==
    /\ env = MainEnv
    /\ sample_docs \in SeqsUpTo(Docs, MaxDocs)
    /\ Start

\* The first statement after "client = client or get_os_client()".
FirstPc(fn) ==
    CASE fn = "create_index_if_not_exists" -> "exists"
      [] fn = "bulk_index_metadata" -> "build"
      [] fn = "query_index" -> "search"

\* What is remembered, when a thread makes a call, of the call it has just
\* ended: that the new call repeats a create_index_if_not_exists (same name,
\* same mapping), or that it queries the index a bulk_index_metadata has just
\* loaded without an error.
Summary(t, call) ==
    IF /\ call.fn = "create_index_if_not_exists" /\ op[t].fn = call.fn
       /\ op[t].index = call.index /\ op[t].mapping = call.mapping
    THEN [what |-> "repeated", docs |-> <<>>, kind |-> ret[t].kind,
          creates |-> calls[t].creates]
    ELSE IF /\ call.fn = "query_index" /\ op[t].fn = "bulk_index_metadata"
            /\ op[t].index = call.index /\ ret[t].kind = "ok"
    THEN [what |-> "loaded", docs |-> op[t].docs, kind |-> ret[t].kind, creates |-> 0]
    ELSE NoPrev

\* ----------------------------------------------------------------- returns

\* get_os_client returns the handle.
ClientReturn(h, hit) ==
    [Outcome("ok", "") EXCEPT !.type = "client", !.handle = h, !.memoHit = hit]

\* create_index_if_not_exists ends after its print and returns None.
EnsureReturn(message) ==
    [Outcome("ok", "") EXCEPT !.type = "None", !.printed = message]

\* bulk_index_metadata ends after its print and returns None.
BulkReturn(acts) ==
    [Outcome("ok", "") EXCEPT !.type = "None", !.printed = "indexed",
                              !.count = IndexedCount(acts)]

\* Faulty variant of BulkErrors: every item of the answer is reported.
BulkErrorsAll(its) == [i \in 1..Len(its) |-> i]

\* helpers.bulk with its defaults: any failed item raises BulkIndexError, which
\* carries the failed items; nothing is sent again.
BulkErrors(its) == FailedItems(its, 1)

BulkOutcome(acts, its) ==
    IF BulkErrors(its) # <<>>
    THEN [Raise("BulkIndexError", "document(s) failed to index") EXCEPT
              !.failures = BulkErrors(its)]
    ELSE BulkReturn(acts)

\* body = {"size": size, "query": query_body}
SearchBody(query_body, size) == [size |-> size, query |-> query_body]

\* Faulty variant of QueryOutcome: an exception of the search is caught and an
\* empty list returned.
QueryOutcomeSwallow(resp) ==
    [Outcome("ok", "") EXCEPT !.type = "list",
                              !.hits = IF resp.error # "ok" THEN <<>> ELSE Sources(resp.hits)]

\* query_index: an exception of client.search leaves the function as it is;
\* otherwise the stored fields of the hits are returned as a list.
QueryOutcome(resp) ==
    IF resp.error # "ok" THEN Raise(resp.error, resp.reason)
    ELSE [Outcome("ok", "") EXCEPT !.type = "list", !.hits = Sources(resp.hits)]

\* client.search(index=index_name, body=body): the answers the service may give.
SearchResponses(c, index_name, body) ==
    IF Transport(c) # "ok"
    THEN {[error |-> Transport(c), reason |-> "", hits |-> <<>>]}
    ELSE IF body.query = MalformedQuery
    THEN {[error |-> "RequestError", reason |-> "parsing_exception", hits |-> <<>>]}
    ELSE IF index_name \notin DOMAIN indices
    THEN {[error |-> "NotFoundError", reason |-> "index_not_found_exception", hits |-> <<>>]}
    ELSE {[error |-> "ok", reason |-> "", hits |-> h] :
             h \in SearchHits(indices[index_name].visible, body.query, body.size)}

\* ------------------------------------------------------------------- steps

\* A thread calls one of the four functions, with no handle or with one that
\* exists in the process. Each of them but get_os_client starts with "client = client or get_os_client()"; get_os_client goes through
\* the lru_cache, whose lookup either hits or lets the caller into the body.
Call(t, call) ==
    /\ pc[t] = "idle"
    /\ prev' = [prev EXCEPT ![t] = Summary(t, call)]
    /\ op' = [op EXCEPT ![t] = call]
    /\ found' = [found EXCEPT ![t] = "unknown"]
    /\ actions' = [actions EXCEPT ![t] = <<>>]
    /\ items' = [items EXCEPT ![t] = <<>>]
    /\ calls' = [calls EXCEPT ![t] = NoCalls]
    /\ IF call.fn # "get_os_client" /\ call.clientArg # NoClient
       THEN /\ client' = [client EXCEPT ![t] = call.clientArg]
            /\ pc' = [pc EXCEPT ![t] = FirstPc(call.fn)]
            /\ ret' = [ret EXCEPT ![t] = Running]
            /\ UNCHANGED raced
       ELSE IF cache # NoClient
       THEN IF call.fn = "get_os_client"
            THEN /\ ret' = [ret EXCEPT ![t] = ClientReturn(cache, TRUE)]
                 /\ client' = [client EXCEPT ![t] = NoClient]
                 /\ UNCHANGED <<pc, raced>>
            ELSE /\ client' = [client EXCEPT ![t] = cache]
                 /\ pc' = [pc EXCEPT ![t] = FirstPc(call.fn)]
                 /\ ret' = [ret EXCEPT ![t] = [Running EXCEPT !.memoHit = TRUE]]
                 /\ UNCHANGED raced
       ELSE /\ pc' = [pc EXCEPT ![t] = "construct"]
            /\ client' = [client EXCEPT ![t] = NoClient]
            /\ ret' = [ret EXCEPT ![t] = Running]
            /\ raced' = (raced \/ \E u \in Threads \ {t} : pc[u] = "construct")
    /\ UNCHANGED <<env, sample_docs, cache, clients, indices, autoIds>>

get_os_client(t) == Call(t, [NoCall EXCEPT !.fn = "get_os_client"])

create_index_if_not_exists(t) ==
    \E n \in IndexNames, m \in Mappings, c \in {NoClient} \cup DOMAIN clients :
        Call(t, [NoCall EXCEPT !.fn = "create_index_if_not_exists", !.index = n,
                               !.mapping = m, !.clientArg = c])

\* The caller loads any run of the documents it owns.
Batches == {SubSeq(sample_docs, i, j) : i \in 1..(Len(sample_docs) + 1), j \in 0..Len(sample_docs)}

bulk_index_metadata(t) ==
    \E n \in IndexNames, ds \in Batches, c \in {NoClient} \cup DOMAIN clients :
        /\ autoIds + AutoNeeded(Actions(n, ds)) <= MaxAuto
        /\ Call(t, [NoCall EXCEPT !.fn = "bulk_index_metadata", !.index = n,
                                  !.docs = ds, !.clientArg = c])

query_index(t) ==
    \E n \in IndexNames, q \in Queries, k \in Sizes, c \in {NoClient} \cup DOMAIN clients :
        Call(t, [NoCall EXCEPT !.fn = "query_index", !.index = n, !.query = q,
                               !.size = k, !.clientArg = c])

\* The body of get_os_client, entered on a cache miss, and the store of its
\* result by the lru_cache wrapper.
Construct(t) ==
    /\ pc[t] = "construct"
    /\ IF ~IsIntLiteral(PortOf(env))
       THEN /\ pc' = [pc EXCEPT ![t] = "idle"]
            /\ ret' = [ret EXCEPT ![t] = Raise("ValueError", "invalid literal for int()")]
            /\ UNCHANGED <<cache, clients, client>>
       ELSE LET h == Cardinality(DOMAIN clients) + 1 IN
            /\ clients' = (h :> NewClient(env)) @@ clients
            /\ cache' = CacheStore(cache, h)
            /\ IF op[t].fn = "get_os_client"
               THEN /\ pc' = [pc EXCEPT ![t] = "idle"]
                    /\ ret' = [ret EXCEPT ![t] = ClientReturn(h, FALSE)]
                    /\ UNCHANGED client
               ELSE /\ pc' = [pc EXCEPT ![t] = FirstPc(op[t].fn)]
                    /\ client' = [client EXCEPT ![t] = h]
                    /\ UNCHANGED ret
    /\ UNCHANGED <<env, sample_docs, raced, indices, autoIds, op, found, actions, items,
                   calls, prev>>

\* client.indices.exists(index=index_name), and the branch on its answer.
Exists(t) ==
    /\ pc[t] = "exists"
    /\ calls' = [calls EXCEPT ![t].net = @ + 1]
    /\ IF Transport(clients[client[t]]) # "ok"
       THEN /\ pc' = [pc EXCEPT ![t] = "idle"]
            /\ ret' = [ret EXCEPT ![t] = Raise(Transport(clients[client[t]]), "")]
            /\ UNCHANGED found
       ELSE LET present == op[t].index \in DOMAIN indices IN
            /\ found' = [found EXCEPT ![t] = IF present THEN "present" ELSE "absent"]
            /\ IF NeedsCreate(present)
               THEN /\ pc' = [pc EXCEPT ![t] = "create"]
                    /\ UNCHANGED ret
               ELSE /\ pc' = [pc EXCEPT ![t] = "idle"]
                    /\ ret' = [ret EXCEPT ![t] = EnsureReturn("already exists")]
    /\ UNCHANGED <<env, sample_docs, cache, clients, raced, indices, autoIds, op, client,
                   actions, items, prev>>

\* client.indices.create(index=index_name, body=mapping): the service refuses a
\* name it already has and a mapping it cannot read.
Create(t) ==
    /\ pc[t] = "create"
    /\ pc' = [pc EXCEPT ![t] = "idle"]
    /\ calls' = [calls EXCEPT ![t].net = @ + 1, ![t].creates = @ + 1]
    /\ IF Transport(clients[client[t]]) # "ok"
       THEN /\ ret' = [ret EXCEPT ![t] = Raise(Transport(clients[client[t]]), "")]
            /\ UNCHANGED indices
       ELSE IF op[t].index \in DOMAIN indices
       THEN /\ ret' = [ret EXCEPT ![t] = Raise("RequestError", "resource_already_exists_exception")]
            /\ UNCHANGED indices
       ELSE IF op[t].mapping = "invalid"
       THEN /\ ret' = [ret EXCEPT ![t] = Raise("RequestError", "mapper_parsing_exception")]
            /\ UNCHANGED indices
       ELSE /\ indices' = (op[t].index :> NewIndex(op[t].mapping)) @@ indices
            /\ ret' = [ret EXCEPT ![t] = EnsureReturn("created")]
    /\ UNCHANGED <<env, sample_docs, cache, clients, raced, autoIds, op, client, found,
                   actions, items, prev>>

\* The list comprehension that builds the operations.
Build(t) ==
    /\ pc[t] = "build"
    /\ actions' = [actions EXCEPT ![t] = Actions(op[t].index, op[t].docs)]
    /\ pc' = [pc EXCEPT ![t] = "submit"]
    /\ UNCHANGED <<env, sample_docs, cache, clients, raced, indices, autoIds, op, client,
                   found, items, ret, calls, prev>>

\* helpers.bulk(client, actions, refresh=True) and the print after it. With no
\* operation the helper sends nothing. The service creates on first write an
\* index it does not have.
Submit(t) ==
    /\ pc[t] = "submit"
    /\ pc' = [pc EXCEPT ![t] = "idle"]
    /\ IF actions[t] = <<>>
       THEN /\ ret' = [ret EXCEPT ![t] = BulkReturn(actions[t])]
            /\ UNCHANGED <<indices, autoIds, items, calls>>
       ELSE /\ calls' = [calls EXCEPT ![t].net = @ + 1]
            /\ IF Transport(clients[client[t]]) # "ok"
               THEN /\ ret' = [ret EXCEPT ![t] = Raise(Transport(clients[client[t]]), "")]
                    /\ UNCHANGED <<indices, autoIds, items>>
               ELSE LET name == op[t].index
                        base == IF name \in DOMAIN indices THEN indices[name]
                                ELSE NewIndex(Dynamic)
                        r == ApplyBulk(actions[t], base.stored, autoIds, <<>>)
                        after == [mapping |-> base.mapping, stored |-> r.stored,
                                  visible |-> IF BulkRefresh THEN r.stored ELSE base.visible]
                    IN  /\ indices' = (name :> after) @@ indices
                        /\ autoIds' = r.auto
                        /\ items' = [items EXCEPT ![t] = r.items]
                        /\ ret' = [ret EXCEPT ![t] = BulkOutcome(actions[t], r.items)]
    /\ UNCHANGED <<env, sample_docs, cache, clients, raced, op, client, found, actions,
                   prev>>

\* client.search(index=index_name, body=body) and the extraction of the hits.
Search(t) ==
    /\ pc[t] = "search"
    /\ pc' = [pc EXCEPT ![t] = "idle"]
    /\ calls' = [calls EXCEPT ![t].net = @ + 1]
    /\ \E resp \in SearchResponses(clients[client[t]], op[t].index,
                                   SearchBody(op[t].query, op[t].size)) :
           ret' = [ret EXCEPT ![t] = QueryOutcome(resp)]
    /\ UNCHANGED <<env, sample_docs, cache, clients, raced, indices, autoIds, op, client,
                   found, actions, items, prev>>

\* ---------------------------------------------------------- specifications

Step(t) ==
    \/ get_os_client(t)
    \/ Construct(t)
    \/ create_index_if_not_exists(t)
    \/ Exists(t)
    \/ Create(t)
    \/ bulk_index_metadata(t)
    \/ Build(t)
    \/ Submit(t)
    \/ query_index(t)
    \/ Search(t)

\* One thread: the calls follow one another, as in the module's main program.
Next == Step(MainThread)
Spec == Init /\ [][Next]_vars

\* Several threads of one configured process use the client provider and the
\* index manager at the same time.
ConcInit ==
    /\ env \in {e \in Envs : Transport(NewClient(e)) = "ok"}
    /\ sample_docs = <<>>
    /\ Start

ConcStep(t) ==
    \/ get_os_client(t)
    \/ Construct(t)
    \/ create_index_if_not_exists(t)
    \/ Exists(t)
    \/ Create(t)

ConcNext == \E t \in Threads : ConcStep(t)
ConcSpec == ConcInit /\ [][ConcNext]_vars

\* Any environment, with a caller that owns no documents.
EnvInit ==
    /\ env \in Envs
    /\ sample_docs = <<>>
    /\ Start

EnvSpec == EnvInit /\ [][Next]_vars

\* The bulk loader alone, over documents whose identifier fields carry every
\* kind of value: missing, empty string, zero, non-empty.
IdVals == {Absent, "", Zero, "C-001", "7"}
IdDocs == [contract_id : IdVals, id : IdVals, full_text : {"indemnity"}]

InitIds ==
    /\ env = MainEnv
    /\ sample_docs \in SeqsUpTo(IdDocs, MaxDocs)
    /\ Start

NextIds ==
    \/ bulk_index_metadata(MainThread)
    \/ Construct(MainThread)
    \/ Build(MainThread)
SpecIds == InitIds /\ [][NextIds]_vars

\* ------------------------------------------------------------------ claims

Main == MainThread

\* t has ended a call of fn.
Ended(t, fn) == pc[t] = "idle" /\ op[t].fn = fn

\* The elements of a sequence.
Range(s) == {s[i] : i \in 1..Len(s)}

\* Document i of a batch the service accepted is not overwritten by a later
\* accepted document of the batch that carries the same identifier.
Survives(ds, i) ==
    \A j \in (i + 1)..Len(ds) :
        ~(Accepts(ds[j]) /\ DeriveId(ds[j]) # NoneVal /\ DeriveId(ds[j]) = DeriveId(ds[i]))

\* The visible documents of an index that match a query.
VisibleMatches(index_name, q) ==
    {k \in DOMAIN indices[index_name].visible : Matches(indices[index_name].visible[k], q)}

\* --- C1 ---
\* The main thread runs create_index_if_not_exists again, with the name and
\* the mapping of the call it has just ended.
C1_Repeated ==
    /\ op[Main].fn = "create_index_if_not_exists"
    /\ prev[Main].what = "repeated"

\* C1 (as amended): when create_index_if_not_exists has returned without an
\* error, a second call with the same name and mapping sends no create request
\* (so the two calls send at most one) and no step of it changes the indices of
\* the service, their mappings or their documents.
C1_SecondCallIsNoOp ==
    [][(C1_Repeated' /\ prev'[Main].kind = "ok")
         => /\ indices' = indices
            /\ calls'[Main].creates = 0
            /\ prev'[Main].creates + calls'[Main].creates <= 1]_vars

\* C1 witness: the first call created the index and the second has returned.
C1_Witness ==
    /\ C1_Repeated
    /\ pc[Main] = "idle"
    /\ prev[Main].kind = "ok"
    /\ prev[Main].creates = 1
    /\ ret[Main].kind = "ok"
    /\ found[Main] = "present"

\* C1 (as stated): two calls in sequence with the same name and mapping send
\* at most one create request and the second leaves the indices as the first
\* left them, whatever the first call met.
C1_AsStated ==
    [][C1_Repeated'
         => /\ indices' = indices
            /\ prev'[Main].creates + calls'[Main].creates <= 1]_vars

\* --- C2 ---
\* The main thread has queried, without an error, the index it had just loaded
\* with bulk_index_metadata (which had returned without an error).
C2_QueriedAfterLoad ==
    /\ Ended(Main, "query_index")
    /\ prev[Main].what = "loaded"
    /\ ret[Main].kind = "ok"

\* C2 (as amended): after bulk_index_metadata has returned, a query of that
\* index returns min(size, number of visible matching documents) documents, all
\* matching; when size is at least that number, every matching document of the
\* batch that was not overwritten by a later document of the batch with the same
\* identifier is among them, with no refresh in between.
C2_LoadedDocumentsAreVisible ==
    C2_QueriedAfterLoad =>
        LET q == op[Main].query
            m == VisibleMatches(op[Main].index, q)
            ds == prev[Main].docs
        IN  /\ Len(ret[Main].hits) = Min(op[Main].size, Cardinality(m))
            /\ \A d \in Range(ret[Main].hits) : Matches(d, q)
            /\ op[Main].size >= Cardinality(m) =>
                 \A i \in 1..Len(ds) :
                     (Survives(ds, i) /\ Matches(ds[i], q)) => ds[i] \in Range(ret[Main].hits)

\* C2 witness: a just-loaded matching document comes back from an index that
\* create_index_if_not_exists had created.
C2_Witness ==
    /\ C2_QueriedAfterLoad
    /\ indices[op[Main].index].mapping # Dynamic
    /\ \E i \in 1..Len(prev[Main].docs) :
           /\ Matches(prev[Main].docs[i], op[Main].query)
           /\ prev[Main].docs[i] \in Range(ret[Main].hits)

\* C2 (as stated): a query (for at least one hit) whose filter matches at least
\* one document of the non-empty batch just loaded into an existing index
\* returns at least one of the matching documents of the batch.
C2_AsStated ==
    (/\ C2_QueriedAfterLoad
     /\ op[Main].size >= 1
     /\ indices[op[Main].index].mapping # Dynamic
     /\ \E d \in Range(prev[Main].docs) : Matches(d, op[Main].query))
    => \E d \in Range(prev[Main].docs) :
           Matches(d, op[Main].query) /\ d \in Range(ret[Main].hits)

\* --- C3 ---
\* C3 (as amended): bulk_index_metadata of N documents returns None and prints
\* the count N in its message.
C3_PrintsCountReturnsNone ==
    (Ended(Main, "bulk_index_metadata") /\ ret[Main].kind = "ok")
    => /\ ret[Main].type = "None"
       /\ ret[Main].printed = "indexed"
       /\ ret[Main].count = Len(op[Main].docs)

\* C3 witness: a batch of two documents that carry the same identifier (or
\* both none) has been loaded.
C3_Witness ==
    /\ Ended(Main, "bulk_index_metadata")
    /\ ret[Main].kind = "ok"
    /\ Len(op[Main].docs) = 2
    /\ DeriveId(op[Main].docs[1]) = DeriveId(op[Main].docs[2])

\* C3 (as stated): bulk_index_metadata returns the count N to its caller.
C3_AsStated ==
    (Ended(Main, "bulk_index_metadata") /\ ret[Main].kind = "ok")
    => /\ ret[Main].type = "int"
       /\ ret[Main].value = Len(op[Main].docs)

\* --- C4 ---
\* The identifier the claim gives a document: contract_id when the document
\* has it, else id when it has it, else none.
C4_ClaimedId(doc) ==
    IF doc.contract_id # Absent THEN doc.contract_id
    ELSE IF doc.id # Absent THEN doc.id
    ELSE NoneVal

\* C4 (as stated): every operation built carries contract_id when the document
\* has that field, else id when it has that field, and no identifier only when
\* it has neither, whatever the values of the fields.
C4_AsStated ==
    pc[Main] = "submit" =>
        \A i \in 1..Len(actions[Main]) :
            actions[Main][i].id = C4_ClaimedId(op[Main].docs[i])

\* --- C5 ---
\* The main thread's bulk_index_metadata has ended with a BulkIndexError.
C5_BulkFailed ==
    /\ Ended(Main, "bulk_index_metadata")
    /\ ret[Main].kind = "BulkIndexError"

\* C5: the failure list of the BulkIndexError holds exactly the documents the
\* service rejected, each once; every accepted document (not overwritten by a
\* later accepted one of the batch) is stored and visible under the identifier
\* the service answered; one request was sent and none again.
C5_PartialFailure ==
    C5_BulkFailed =>
        LET ds == op[Main].docs
            ix == indices[op[Main].index]
        IN  /\ Len(items[Main]) = Len(ds)
            /\ \A i \in 1..Len(ds) :
                   /\ items[Main][i].ok <=> Accepts(ds[i])
                   /\ (i \in Range(ret[Main].failures)) <=> ~Accepts(ds[i])
            /\ Len(ret[Main].failures) = Cardinality(Range(ret[Main].failures))
            /\ \A i \in 1..Len(ds) :
                   (Accepts(ds[i]) /\ Survives(ds, i)) =>
                       /\ items[Main][i].id \in DOMAIN ix.stored
                       /\ ix.stored[items[Main][i].id] = ds[i]
                       /\ items[Main][i].id \in DOMAIN ix.visible
                       /\ ix.visible[items[Main][i].id] = ds[i]
            /\ calls[Main].net = 1

\* C5 witness: a batch with an accepted and a rejected document has failed.
C5_Witness ==
    /\ C5_BulkFailed
    /\ \E i, j \in 1..Len(op[Main].docs) :
           Accepts(op[Main].docs[i]) /\ ~Accepts(op[Main].docs[j])

\* --- C6 ---
\* C6: a query of an index the service does not have ends with an error, never
\* with a list (when the request reaches the service: NotFoundError, or
\* RequestError for a query it cannot parse); a query that returns, returns a
\* list, which is empty when no visible document matches.
C6_MissingIndexIsAnError ==
    Ended(Main, "query_index") =>
        /\ op[Main].index \notin DOMAIN indices =>
               /\ ret[Main].kind # "ok"
               /\ ret[Main].type # "list"
               /\ (client[Main] \in DOMAIN clients
                   /\ Transport(clients[client[Main]]) = "ok") =>
                      ret[Main].kind \in {"NotFoundError", "RequestError"}
               /\ (client[Main] \in DOMAIN clients /\ op[Main].query # MalformedQuery) =>
                      ret[Main].kind \in {"NotFoundError", "ConnectionError",
                                          "AuthenticationException"}
        /\ ret[Main].kind = "ok" =>
               /\ ret[Main].type = "list"
               /\ op[Main].index \in DOMAIN indices
               /\ VisibleMatches(op[Main].index, op[Main].query) = {} => ret[Main].hits = <<>>

\* C6 witness: a well-formed query of a missing index has ended in NotFoundError.
C6_Witness ==
    /\ Ended(Main, "query_index")
    /\ op[Main].index \notin DOMAIN indices
    /\ op[Main].query # MalformedQuery
    /\ ret[Main].kind = "NotFoundError"

\* --- C7 ---
\* C7: with one thread, at most one handle is ever constructed; it is the cache
\* entry; every get_os_client that returns, returns it; and every function
\* called without a handle works with it.
C7_Memoized ==
    /\ Cardinality(DOMAIN clients) <= 1
    /\ cache # NoClient => DOMAIN clients = {cache}
    /\ (Ended(Main, "get_os_client") /\ ret[Main].kind = "ok") =>
           /\ ret[Main].handle = cache
           /\ DOMAIN clients = {cache}
    /\ (/\ op[Main].fn \in Fns \ {"get_os_client"}
        /\ op[Main].clientArg = NoClient
        /\ pc[Main] # "construct"
        /\ ret[Main].kind # "ValueError") =>
           /\ cache # NoClient
           /\ client[Main] = cache

\* C7 witness: a get_os_client after the first has returned the cached handle.
C7_Witness ==
    /\ Ended(Main, "get_os_client")
    /\ ret[Main].kind = "ok"
    /\ ret[Main].memoHit
    /\ ret[Main].handle = cache

\* --- C8 ---
\* get_os_client has ended in an environment without host, user or password.
C8_Unconfigured ==
    /\ Ended(Main, "get_os_client")
    /\ (env.host = Absent \/ env.user = Absent \/ env.pass = Absent)

C9_TwoHandles ==
    \/ Cardinality(DOMAIN clients) >= 2
    \/ \E t, u \in Threads :
           /\ ret[t].type = "client" /\ ret[u].type = "client"
           /\ ret[t].handle # ret[u].handle
    \/ \E t, u \in Threads : client[t] # NoClient /\ client[u] # NoClient /\ client[t] # client[u]

\* C9: a second handle exists only after a concurrent first use: two threads
\* were inside get_os_client's body at the same time.
C9_SecondHandleOnlyByRace == C9_TwoHandles => raced

\* C9 witness: two threads have each been returned a handle by get_os_client,
\* and the two handles differ.
C9_Witness ==
    /\ Cardinality(DOMAIN clients) >= 2
    /\ \E t, u \in Threads :
           /\ Ended(t, "get_os_client") /\ ret[t].kind = "ok"
           /\ Ended(u, "get_os_client") /\ ret[u].kind = "ok"
           /\ ret[t].handle # ret[u].handle

\* --- C10 ---
\* t's create_index_if_not_exists has ended after sending a create request.
C10_Created(t) ==
    /\ Ended(t, "create_index_if_not_exists")
    /\ calls[t].creates = 1

\* C10: a create request is sent only by a caller whose own existence check
\* answered "absent", and at most once per call; the create of a caller that
\* returns has made the index, with the caller's mapping; of two callers that
\* sent a create for one name at most one returns, and the other's call ends
\* with the service's error.
C10_CheckThenCreate ==
    /\ \A t \in Threads :
           /\ pc[t] = "create" => found[t] = "absent"
           /\ calls[t].creates > 0 => (found[t] = "absent" /\ calls[t].creates = 1)
           /\ found[t] = "present" => (pc[t] # "create" /\ calls[t].creates = 0)
           /\ (C10_Created(t) /\ ret[t].kind = "ok") =>
                  /\ op[t].index \in DOMAIN indices
                  /\ indices[op[t].index].mapping = op[t].mapping
           /\ (C10_Created(t) /\ ret[t].kind # "ok") => ret[t].kind = "RequestError"
    /\ \A t, u \in Threads :
           (t # u /\ C10_Created(t) /\ C10_Created(u) /\ op[t].index = op[u].index)
               => ~(ret[t].kind = "ok" /\ ret[u].kind = "ok")

\* C10 witness: two callers saw the name absent and both sent a create with a
\* mapping the service reads; one returned, the other's create was refused
\* because the index existed.
C10_Witness ==
    \E t, u \in Threads :
        /\ t # u
        /\ C10_Created(t) /\ C10_Created(u)
        /\ op[t].index = op[u].index
        /\ op[t].mapping # "invalid" /\ op[u].mapping # "invalid"
        /\ found[t] = "absent" /\ found[u] = "absent"
        /\ ret[t].kind = "ok"
        /\ ret[u].kind = "RequestError"
        /\ ret[u].reason = "resource_already_exists_exception"

====
